---- MODULE Spec2Model ----
(***************************************************************************)
(* Model of ArtilleryShells/src/main.cpp: the entry point wWinMain (window *)
(* class registration, window creation, the PeekMessage game loop) and the *)
(* window procedure WndProc.                                               *)
(*                                                                         *)
(* The Win32 calls are the program's environment.  RegisterClassEx and     *)
(* CreateWindowEx succeed or fail nondeterministically.  The thread's      *)
(* message queue is a FIFO sequence to which other threads and the system  *)
(* post messages at any moment (action Post) and to which PostQuitMessage  *)
(* appends the sentinel WM_QUIT.  PeekMessage fills the MSG record only    *)
(* when it finds a message.                                                *)
(*                                                                         *)
(* The variables arrived, translated, dispatched, defProcCalls, idleCount, *)
(* emptyPeeks, regAttempts, createAttempts, shown, initPeeked and the      *)
(* it* flags are observations of the run; the code keeps no such state.   *)
(***************************************************************************)
EXTENDS Integers, Sequences, FiniteSets, TLC

\* ---------------------------------------------------------------- bounds
\* Messages the environment posts in one run.
MaxMsgs == 3
\* The observation counters idleCount and emptyPeeks stop counting here.
MaxIdle == 3

\* ------------------------------------------------------------- constants
WM_NULL == 0
WM_DESTROY == 2
WM_QUIT == 18
WM_KEYDOWN == 256

\* Window handles: NULL and the one window wWinMain creates.
NULL == 0
MainWindow == 1

\* Values of a parameter word (wParam, lParam): zero and non-zero.
ParamWords == {0, 1}

\* The MSG record: owning window, message kind, two parameter words.
MakeMsg(h, k, w, l) == [hwnd |-> h, message |-> k, wParam |-> w, lParam |-> l]

\* What other threads and the system post: key messages for the main window
\* with a key code in wParam, WM_DESTROY for the main window (its parameter
\* words are unused), and WM_QUIT as a thread message carrying an exit code in
\* wParam.
PostedMsgs ==
    {MakeMsg(MainWindow, WM_KEYDOWN, w, 0) : w \in ParamWords}
    \cup {MakeMsg(MainWindow, WM_DESTROY, 0, 0)}
    \cup {MakeMsg(NULL, WM_QUIT, w, 0) : w \in ParamWords}

\* The value of the local `MSG msg` after `msg.message = WM_NULL`: the other
\* fields are not initialised, so they hold any value.
FreshMsgs ==
    {MakeMsg(h, WM_NULL, w, l) : h \in {NULL, MainWindow}, w \in ParamWords, l \in ParamWords}

\* Placeholder for msg before its declaration is reached.
NoMsg == MakeMsg(NULL, WM_NULL, 0, 0)

VARIABLES
    pc,                \* position in wWinMain
    ret,               \* <<>> while running, <<status>> once wWinMain returned
    windowClassHandle, \* result of RegisterClassEx (0 = failure)
    mainWindowHandle,  \* result of CreateWindowEx (NULL = failure)
    bGotMsg,           \* local bGotMsg
    msg,               \* local msg
    queue,             \* the thread's message queue, oldest first
    arrived,           \* every message ever placed in the queue, in order
    translated,        \* arguments of the TranslateMessage calls, in order
    dispatched,        \* arguments of the DispatchMessage calls, in order
    defProcCalls,      \* arguments of the DefWindowProc calls, in order
    idleCount,         \* executions of the idle (else) branch
    emptyPeeks,        \* PM_REMOVE peeks that found no message
    regAttempts,       \* RegisterClassEx calls
    createAttempts,    \* CreateWindowEx calls
    shown,             \* ShowWindow was called
    initPeeked,        \* the PM_NOREMOVE peek before the loop was made
    itPeek,            \* this iteration: PM_REMOVE peeks made
    itTranslate,       \* this iteration: TranslateMessage calls
    itDispatch,        \* this iteration: DispatchMessage calls
    itIdle             \* this iteration: idle branch executions

vars == <<pc, ret, windowClassHandle, mainWindowHandle, bGotMsg, msg, queue,
          arrived, translated, dispatched, defProcCalls, idleCount, emptyPeeks,
          regAttempts, createAttempts, shown, initPeeked,
          itPeek, itTranslate, itDispatch, itIdle>>

startupVars == <<windowClassHandle, mainWindowHandle, regAttempts, createAttempts, shown, initPeeked>>
logVars == <<translated, dispatched, defProcCalls, idleCount, emptyPeeks>>
iterVars == <<itPeek, itTranslate, itDispatch, itIdle>>

LoopPcs == {"test", "peek", "translate", "dispatch", "idle"}

Bump(n) == IF n < MaxIdle THEN n + 1 ELSE n

Init ==
    /\ pc = "register"
    /\ ret = <<>>
    /\ windowClassHandle = 0
    /\ mainWindowHandle = NULL
    /\ bGotMsg = FALSE
    /\ msg = NoMsg
    /\ queue = <<>>
    /\ arrived = <<>>
    /\ translated = <<>>
    /\ dispatched = <<>>
    /\ defProcCalls = <<>>
    /\ idleCount = 0
    /\ emptyPeeks = 0
    /\ regAttempts = 0
    /\ createAttempts = 0
    /\ shown = FALSE
    /\ initPeeked = FALSE
    /\ itPeek = 0
    /\ itTranslate = 0
    /\ itDispatch = 0
    /\ itIdle = 0

\* ----------------------------------------------------------- environment
\* Calls of PostQuitMessage made so far: one per WM_DESTROY WndProc received.
QuitPosts == Cardinality({i \in DOMAIN defProcCalls : defProcCalls[i].message = WM_DESTROY})

\* Another thread or the system posts a message to the thread's queue.
Post ==
    /\ pc # "done"
    /\ Len(arrived) - QuitPosts < MaxMsgs
    /\ \E m \in PostedMsgs :
          /\ queue' = Append(queue, m)
          /\ arrived' = Append(arrived, m)
    /\ UNCHANGED <<pc, ret, bGotMsg, msg, startupVars, logVars, iterVars>>

\* --------------------------------------------------------------- startup
\* Mutant: the result of RegisterClassEx is not checked.
RegisterClass_Unchecked ==
    /\ pc = "register"
    /\ regAttempts' = regAttempts + 1
    /\ \E h \in {0, 1} : windowClassHandle' = h
    /\ pc' = "create"
    /\ UNCHANGED <<ret, mainWindowHandle, createAttempts, shown, initPeeked, bGotMsg, msg,
                   queue, arrived, logVars, iterVars>>

\* auto windowClassHandle = RegisterClassEx(&wc); if (!windowClassHandle) return -1;
RegisterClass ==
    /\ pc = "register"
    /\ regAttempts' = regAttempts + 1
    /\ \E h \in {0, 1} :
          /\ windowClassHandle' = h
          /\ IF h = 0
                THEN pc' = "done" /\ ret' = <<-1>>
                ELSE pc' = "create" /\ ret' = ret
    /\ UNCHANGED <<mainWindowHandle, createAttempts, shown, initPeeked, bGotMsg, msg,
                   queue, arrived, logVars, iterVars>>

\* Mutant: the result of CreateWindowEx is not checked.
CreateWindow_Unchecked ==
    /\ pc = "create"
    /\ createAttempts' = createAttempts + 1
    /\ \E h \in {NULL, MainWindow} : mainWindowHandle' = h
    /\ pc' = "show"
    /\ UNCHANGED <<ret, windowClassHandle, regAttempts, shown, initPeeked, bGotMsg, msg,
                   queue, arrived, logVars, iterVars>>

\* auto mainWindowHandle = CreateWindowEx(...); if (!mainWindowHandle) return -1;
CreateWindow ==
    /\ pc = "create"
    /\ createAttempts' = createAttempts + 1
    /\ \E h \in {NULL, MainWindow} :
          /\ mainWindowHandle' = h
          /\ IF h = NULL
                THEN pc' = "done" /\ ret' = <<-1>>
                ELSE pc' = "show" /\ ret' = ret
    /\ UNCHANGED <<windowClassHandle, regAttempts, shown, initPeeked, bGotMsg, msg,
                   queue, arrived, logVars, iterVars>>

\* ShowWindow(mainWindowHandle, nCmdShow);
ShowMainWindow ==
    /\ pc = "show"
    /\ shown' = TRUE
    /\ pc' = "init"
    /\ UNCHANGED <<ret, windowClassHandle, mainWindowHandle, regAttempts, createAttempts,
                   initPeeked, bGotMsg, msg, queue, arrived, logVars, iterVars>>

\* Mutant: the peek before the loop is made with PM_REMOVE.
InitPeek_Remove ==
    /\ pc = "init"
    /\ bGotMsg' \in BOOLEAN
    /\ IF queue # <<>>
          THEN msg' = Head(queue) /\ queue' = Tail(queue)
          ELSE msg' \in FreshMsgs /\ queue' = queue
    /\ initPeeked' = TRUE
    /\ pc' = "test"
    /\ UNCHANGED <<ret, windowClassHandle, mainWindowHandle, regAttempts, createAttempts,
                   shown, arrived, logVars, iterVars>>

\* bool bGotMsg; MSG msg; msg.message = WM_NULL;
\* PeekMessage(&msg, NULL, 0U, 0U, PM_NOREMOVE);
\* The peek copies the oldest message into msg, if there is one, and removes
\* nothing.  bGotMsg is not initialised.
InitPeek ==
    /\ pc = "init"
    /\ bGotMsg' \in BOOLEAN
    /\ IF queue # <<>>
          THEN msg' = Head(queue)
          ELSE msg' \in FreshMsgs
    /\ initPeeked' = TRUE
    /\ pc' = "test"
    /\ UNCHANGED <<ret, windowClassHandle, mainWindowHandle, regAttempts, createAttempts,
                   shown, queue, arrived, logVars, iterVars>>

\* ------------------------------------------------------------- main loop
\* Mutant: the loop has no exit test.
LoopCondition_Always == TRUE

\* Mutant: the loop tests for the wrong message kind.
LoopCondition_Destroy == msg.message # WM_DESTROY

\* Mutant: the loop goes on until the queue is drained.
LoopCondition_Drain == msg.message # WM_QUIT \/ queue # <<>>

\* while (msg.message != WM_QUIT)
LoopCondition == msg.message # WM_QUIT

\* The loop test holds: a new iteration begins.
LoopEnter ==
    /\ pc = "test"
    /\ LoopCondition
    /\ pc' = "peek"
    /\ itPeek' = 0
    /\ itTranslate' = 0
    /\ itDispatch' = 0
    /\ itIdle' = 0
    /\ UNCHANGED <<ret, bGotMsg, msg, queue, arrived, startupVars, logVars>>

\* Mutant: the loop returns the exit code the sentinel carries.
ExitStatus_WParam == msg.wParam

\* The status of the `return` after the loop.
ExitStatus == 0

\* The loop test fails: return 0;
LoopExit ==
    /\ pc = "test"
    /\ ~LoopCondition
    /\ pc' = "done"
    /\ ret' = <<ExitStatus>>
    /\ UNCHANGED <<bGotMsg, msg, queue, arrived, startupVars, logVars, iterVars>>

\* Mutant: msg is reset to an empty record when the peek finds no message.
PeekRemove_ClearsMsg ==
    /\ pc = "peek"
    /\ itPeek' = itPeek + 1
    /\ IF queue # <<>>
          THEN /\ bGotMsg' = TRUE
               /\ msg' = Head(queue)
               /\ queue' = Tail(queue)
               /\ emptyPeeks' = emptyPeeks
               /\ pc' = "translate"
          ELSE /\ bGotMsg' = FALSE
               /\ msg' = NoMsg
               /\ queue' = queue
               /\ emptyPeeks' = Bump(emptyPeeks)
               /\ pc' = "idle"
    /\ UNCHANGED <<ret, arrived, startupVars, translated, dispatched, defProcCalls,
                   idleCount, itTranslate, itDispatch, itIdle>>

\* Mutant: the retrieval waits for a message (GetMessage) instead of peeking.
PeekRemove_Blocking ==
    /\ pc = "peek"
    /\ queue # <<>>
    /\ itPeek' = itPeek + 1
    /\ bGotMsg' = TRUE
    /\ msg' = Head(queue)
    /\ queue' = Tail(queue)
    /\ pc' = "translate"
    /\ UNCHANGED <<ret, arrived, startupVars, logVars, itTranslate, itDispatch, itIdle>>

\* Mutant: the two branches of `if (bGotMsg)` are swapped.
PeekRemove_Swapped ==
    /\ pc = "peek"
    /\ itPeek' = itPeek + 1
    /\ IF queue # <<>>
          THEN /\ bGotMsg' = TRUE
               /\ msg' = Head(queue)
               /\ queue' = Tail(queue)
               /\ emptyPeeks' = emptyPeeks
               /\ pc' = "idle"
          ELSE /\ bGotMsg' = FALSE
               /\ msg' = msg
               /\ queue' = queue
               /\ emptyPeeks' = Bump(emptyPeeks)
               /\ pc' = "translate"
    /\ UNCHANGED <<ret, arrived, startupVars, translated, dispatched, defProcCalls,
                   idleCount, itTranslate, itDispatch, itIdle>>

\* Mutant: the loop peeks with PM_NOREMOVE, so the message stays queued.
PeekRemove_NoRemove ==
    /\ pc = "peek"
    /\ itPeek' = itPeek + 1
    /\ IF queue # <<>>
          THEN /\ bGotMsg' = TRUE
               /\ msg' = Head(queue)
               /\ queue' = queue
               /\ emptyPeeks' = emptyPeeks
               /\ pc' = "translate"
          ELSE /\ bGotMsg' = FALSE
               /\ msg' = msg
               /\ queue' = queue
               /\ emptyPeeks' = Bump(emptyPeeks)
               /\ pc' = "idle"
    /\ UNCHANGED <<ret, arrived, startupVars, translated, dispatched, defProcCalls,
                   idleCount, itTranslate, itDispatch, itIdle>>

\* bGotMsg = (PeekMessage(&msg, nullptr, 0U, 0U, PM_REMOVE) != 0);
\* if (bGotMsg) ... else ...
PeekRemove ==
    /\ pc = "peek"
    /\ itPeek' = itPeek + 1
    /\ IF queue # <<>>
          THEN /\ bGotMsg' = TRUE
               /\ msg' = Head(queue)
               /\ queue' = Tail(queue)
               /\ emptyPeeks' = emptyPeeks
               /\ pc' = "translate"
          ELSE /\ bGotMsg' = FALSE
               /\ msg' = msg
               /\ queue' = queue
               /\ emptyPeeks' = Bump(emptyPeeks)
               /\ pc' = "idle"
    /\ UNCHANGED <<ret, arrived, startupVars, translated, dispatched, defProcCalls,
                   idleCount, itTranslate, itDispatch, itIdle>>

\* TranslateMessage(&msg);
Translate ==
    /\ pc = "translate"
    /\ translated' = Append(translated, msg)
    /\ itTranslate' = itTranslate + 1
    /\ pc' = "dispatch"
    /\ UNCHANGED <<ret, bGotMsg, msg, queue, arrived, startupVars, dispatched,
                   defProcCalls, idleCount, emptyPeeks, itPeek, itDispatch, itIdle>>

\* PostQuitMessage(nExitCode): the sentinel joins the thread's queue.
PostQuitMessage(q, nExitCode) == Append(q, MakeMsg(NULL, WM_QUIT, nExitCode, 0))

\* Mutant: WndProc has no case for WM_DESTROY.
WndProc_NoPost(q, m) == q

\* Mutant: the case label of WndProc names the wrong message kind.
WndProc_WrongCase(q, m) ==
    IF m.message = WM_KEYDOWN THEN PostQuitMessage(q, 0) ELSE q

\* WndProc's effect on a message sequence (the queue, and its record arrived).
WndProc(q, m) ==
    IF m.message = WM_DESTROY THEN PostQuitMessage(q, 0) ELSE q

\* Mutant: the sentinel is not passed to DispatchMessage.
Dispatch_SkipSentinel ==
    /\ pc = "dispatch"
    /\ IF msg.message = WM_QUIT
          THEN UNCHANGED <<dispatched, itDispatch, queue, arrived, defProcCalls>>
          ELSE /\ dispatched' = Append(dispatched, msg)
               /\ itDispatch' = itDispatch + 1
               /\ IF msg.hwnd # NULL
                     THEN /\ queue' = WndProc(queue, msg)
                          /\ arrived' = WndProc(arrived, msg)
                          /\ defProcCalls' = Append(defProcCalls, msg)
                     ELSE UNCHANGED <<queue, arrived, defProcCalls>>
    /\ pc' = "test"
    /\ UNCHANGED <<ret, bGotMsg, msg, startupVars, translated, idleCount, emptyPeeks,
                   itPeek, itTranslate, itIdle>>

\* Mutant: the frame is also updated and rendered after a dispatch.
Dispatch_AndIdle ==
    /\ pc = "dispatch"
    /\ dispatched' = Append(dispatched, msg)
    /\ itDispatch' = itDispatch + 1
    /\ IF msg.hwnd # NULL
          THEN /\ queue' = WndProc(queue, msg)
               /\ arrived' = WndProc(arrived, msg)
               /\ defProcCalls' = Append(defProcCalls, msg)
          ELSE UNCHANGED <<queue, arrived, defProcCalls>>
    /\ idleCount' = Bump(idleCount)
    /\ itIdle' = itIdle + 1
    /\ pc' = "test"
    /\ UNCHANGED <<ret, bGotMsg, msg, startupVars, translated, emptyPeeks,
                   itPeek, itTranslate>>

\* DispatchMessage(&msg): a message that names a window goes to that window's
\* procedure WndProc, which ends by passing it to DefWindowProc; a thread
\* message (hwnd NULL) goes to no window procedure.
Dispatch ==
    /\ pc = "dispatch"
    /\ dispatched' = Append(dispatched, msg)
    /\ itDispatch' = itDispatch + 1
    /\ IF msg.hwnd # NULL
          THEN /\ queue' = WndProc(queue, msg)
               /\ arrived' = WndProc(arrived, msg)
               /\ defProcCalls' = Append(defProcCalls, msg)
          ELSE UNCHANGED <<queue, arrived, defProcCalls>>
    /\ pc' = "test"
    /\ UNCHANGED <<ret, bGotMsg, msg, startupVars, translated, idleCount, emptyPeeks,
                   itPeek, itTranslate, itIdle>>

\* The else branch: the frame update, render and present calls (all of them
\* still comments in the source).
IdleWork ==
    /\ pc = "idle"
    /\ idleCount' = Bump(idleCount)
    /\ itIdle' = itIdle + 1
    /\ pc' = "test"
    /\ UNCHANGED <<ret, bGotMsg, msg, queue, arrived, startupVars, translated,
                   dispatched, defProcCalls, emptyPeeks, itPeek, itTranslate, itDispatch>>

\* One step of wWinMain.
Step ==
    \/ RegisterClass
    \/ CreateWindow
    \/ ShowMainWindow
    \/ InitPeek
    \/ LoopEnter
    \/ LoopExit
    \/ PeekRemove
    \/ Translate
    \/ Dispatch
    \/ IdleWork

Next ==
    \/ Post
    \/ RegisterClass
    \/ CreateWindow
    \/ ShowMainWindow
    \/ InitPeek
    \/ LoopEnter
    \/ LoopExit
    \/ PeekRemove
    \/ Translate
    \/ Dispatch
    \/ IdleWork

Spec == Init /\ [][Next]_vars

\* wWinMain runs on a thread the system keeps scheduling: it always takes its
\* next step.  Nothing is assumed of the environment's posts.
FairSpec == Spec /\ WF_vars(Step)

TypeOK ==
    /\ pc \in {"register", "create", "show", "init", "done"} \cup LoopPcs
    /\ ret \in {<<>>, <<0>>, <<-1>>}
    /\ idleCount \in 0..MaxIdle
    /\ emptyPeeks \in 0..MaxIdle

\* ------------------------------------------------------------ vocabulary
IsSentinel(m) == m.message = WM_QUIT
NoSentinel(s) == \A i \in DOMAIN s : ~IsSentinel(s[i])
IsPrefix(s, t) == Len(s) <= Len(t) /\ \A i \in DOMAIN s : s[i] = t[i]

\* The messages PM_REMOVE peeks have taken out of the queue, in order.
Retrieved == SubSeq(arrived, 1, Len(arrived) - Len(queue))
SentinelRetrieved == ~NoSentinel(Retrieved)

\* The message retrieved in this iteration and not yet dispatched.
InFlight == IF pc \in {"translate", "dispatch"} THEN <<msg>> ELSE <<>>

Returned(status) == pc = "done" /\ ret = <<status>>

\* ------------------------------------------------------------------- C1
\* C1: as long as no sentinel was placed in the queue, the messages passed
\* to DispatchMessage are a prefix of the arrival sequence and every arrived
\* message is dispatched, in flight or still queued, in arrival order (each
\* exactly once, FIFO); a retrieval that finds a message pending takes the
\* oldest one to translate/dispatch, the idle branch is entered only from a
\* retrieval that found the queue empty; and once the loop runs every arrived
\* message is eventually dispatched (or a sentinel has arrived).
C1_FifoDispatch ==
    /\ [](NoSentinel(arrived) =>
            /\ IsPrefix(dispatched, arrived)
            /\ dispatched \o InFlight \o queue = arrived)
    /\ [][NoSentinel(arrived) /\ pc = "peek" /\ pc' # "peek" /\ queue # <<>> =>
            /\ pc' = "translate"
            /\ msg' = Head(queue)
            /\ queue' = Tail(queue)]_vars
    /\ [][NoSentinel(arrived) /\ pc' = "idle" /\ pc # "idle" => pc = "peek" /\ queue = <<>>]_vars
    /\ [][NoSentinel(arrived) /\ itIdle' > itIdle => pc = "idle"]_vars
    /\ \A i \in 1..MaxMsgs :
          (pc \in LoopPcs /\ Len(arrived) >= i)
             ~> (Len(dispatched) >= i \/ ~NoSentinel(arrived))

\* Two messages arrived, an idle iteration ran in between, both dispatched.
C1_Witness ==
    /\ pc = "test"
    /\ NoSentinel(arrived)
    /\ Len(arrived) = 2
    /\ arrived[1] # arrived[2]
    /\ dispatched = arrived
    /\ idleCount >= 1

\* ------------------------------------------------------------------- C2
\* C2: once a PM_REMOVE peek has retrieved the sentinel no new loop iteration
\* begins, whatever was dispatched or idled before, and wWinMain goes on to
\* return 0.
C2_SentinelTerminates ==
    /\ [][SentinelRetrieved => ~(pc = "test" /\ pc' = "peek")]_vars
    /\ [](SentinelRetrieved /\ pc = "done" => ret = <<0>>)
    /\ (SentinelRetrieved ~> Returned(0))

\* The sentinel was retrieved after dispatches and idle iterations; returned.
C2_Witness ==
    /\ Returned(0)
    /\ SentinelRetrieved
    /\ idleCount >= 2
    /\ Len(dispatched) >= 3

\* ------------------------------------------------------------------- C3
\* C3: wWinMain has left the loop with status 0 only if msg holds the
\* sentinel and a sentinel was placed in the queue; with no sentinel ever in
\* the queue the loop is never left.
C3_ExitOnlyOnSentinel ==
    /\ Returned(0) => IsSentinel(msg) /\ ~NoSentinel(arrived)
    /\ NoSentinel(arrived) /\ initPeeked => pc \in LoopPcs

\* Returned 0 with the sentinel in msg after dispatching and idling.
C3_Witness ==
    /\ Returned(0)
    /\ IsSentinel(msg)
    /\ idleCount >= 1
    /\ Len(dispatched) >= 2

\* ------------------------------------------------------------------- C4
\* Position in arrived of the first sentinel, and the number K of messages
\* ahead of it.
SentinelIndex ==
    CHOOSE i \in DOMAIN arrived :
        IsSentinel(arrived[i]) /\ \A j \in 1..(i - 1) : ~IsSentinel(arrived[j])
K == SentinelIndex - 1

\* The queue was never found empty and the loop has terminated.
NoGapRunDone == Returned(0) /\ emptyPeeks = 0

\* C4 as stated: after a run with no idle gap the DispatchMessage calls are
\* exactly the K messages ahead of the sentinel; the sentinel is not among
\* them (2 calls for [A, B, sentinel]).
C4_Original ==
    NoGapRunDone => dispatched = SubSeq(arrived, 1, K)

\* C4 amended: after a run with no idle gap the DispatchMessage calls are the
\* K messages ahead of the sentinel, in order, followed by the sentinel
\* itself: K + 1 calls (3 for [A, B, sentinel]).  Only when the peek before
\* the loop already finds the sentinel (then K = 0 and nothing is ever
\* retrieved) is nothing dispatched.
C4_DispatchCount ==
    NoGapRunDone =>
        IF Retrieved = <<>>
           THEN K = 0 /\ dispatched = <<>>
           ELSE /\ dispatched = SubSeq(arrived, 1, K + 1)
                /\ Len(dispatched) = K + 1
                /\ IsSentinel(dispatched[K + 1])
                /\ NoSentinel(SubSeq(dispatched, 1, K))

\* The run [A, B, sentinel] with no idle gap, terminated.
C4_Witness ==
    /\ NoGapRunDone
    /\ Len(arrived) = 3
    /\ K = 2
    /\ arrived[1].message = WM_KEYDOWN
    /\ arrived[2].message = WM_KEYDOWN
    /\ Len(dispatched) = 3

\* ------------------------------------------------------------------- C5
\* C5: the loop never blocks: in every state inside the loop wWinMain has a
\* step to take, with or without a pending message; and each iteration whose
\* PM_REMOVE peek found the queue empty runs the idle branch exactly once.
C5_NeverBlocksIdleOnce ==
    /\ pc \in LoopPcs => ENABLED Step
    /\ pc \in LoopPcs => itPeek <= 1 /\ itIdle <= 1
    /\ pc = "idle" => itPeek = 1 /\ ~bGotMsg /\ itIdle = 0
    /\ pc = "test" /\ itPeek = 1 /\ ~bGotMsg => itIdle = 1

\* An iteration that found the queue empty has run the idle branch, and a
\* second one is about to peek an empty queue.
C5_Witness ==
    /\ pc = "peek"
    /\ queue = <<>>
    /\ idleCount = 1
    /\ emptyPeeks = 1

\* ------------------------------------------------------------------- C6
\* C6: the idle-work count is the number of PM_REMOVE peeks that found no
\* message (less the one whose idle branch is about to run); it moves only in
\* the idle branch of an iteration that retrieved nothing; so after N empty
\* iterations and then the sentinel, it is N when wWinMain returns.
C6_IdleCount ==
    /\ [](emptyPeeks < MaxIdle =>
            idleCount + (IF pc = "idle" THEN 1 ELSE 0) = emptyPeeks)
    /\ [](Returned(0) /\ emptyPeeks < MaxIdle => idleCount = emptyPeeks)
    /\ [][idleCount' # idleCount =>
            pc = "idle" /\ ~bGotMsg /\ idleCount' = idleCount + 1]_vars
    /\ [][(pc = "translate" \/ pc = "dispatch") => (idleCount' = idleCount)]_vars

\* Two empty iterations, then the sentinel alone arrived; terminated.
C6_Witness ==
    /\ Returned(0)
    /\ Len(arrived) = 1
    /\ IsSentinel(arrived[1])
    /\ emptyPeeks = 2
    /\ idleCount = 2
    /\ Len(dispatched) = 1

\* ------------------------------------------------------------------- C7
Last(s) == s[Len(s)]

\* C7: an iteration either retrieves a message, removing it from the queue,
\* and passes it to TranslateMessage and then to DispatchMessage, once each,
\* with no idle work; or it finds no message and does the idle work once with
\* no translate and no dispatch.  Never both, never neither.
C7_OneBranchPerIteration ==
    /\ [](pc = "test" /\ itPeek = 1 =>
            \/ /\ bGotMsg
               /\ itTranslate = 1 /\ itDispatch = 1 /\ itIdle = 0
               /\ Last(translated) = msg /\ Last(dispatched) = msg
            \/ /\ ~bGotMsg
               /\ itTranslate = 0 /\ itDispatch = 0 /\ itIdle = 1)
    /\ [](pc \in LoopPcs => itDispatch <= itTranslate /\ itTranslate + itIdle <= 1)
    /\ [](pc = "dispatch" => itTranslate = 1 /\ Last(translated) = msg)
    /\ [][pc = "peek" /\ pc' # "peek" =>
            IF queue # <<>>
               THEN bGotMsg' /\ msg' = Head(queue) /\ queue' = Tail(queue)
               ELSE ~bGotMsg' /\ queue' = queue]_vars
    /\ [][Len(dispatched') > Len(dispatched) \/ Len(translated') > Len(translated) =>
            bGotMsg /\ itIdle = 0 /\ itIdle' = 0]_vars
    /\ [][itIdle' > itIdle => ~bGotMsg /\ itTranslate = 0 /\ itDispatch = 0]_vars

\* A dispatch iteration has just ended, after an earlier idle iteration.
C7_Witness ==
    /\ pc = "test"
    /\ itPeek = 1
    /\ bGotMsg
    /\ itDispatch = 1
    /\ idleCount >= 1

\* ------------------------------------------------------------------- C8
RegistrationFailed == regAttempts >= 1 /\ windowClassHandle = 0
CreationFailed == createAttempts >= 1 /\ mainWindowHandle = NULL
LoopUntouched ==
    /\ ~shown
    /\ ~initPeeked
    /\ itPeek = 0
    /\ emptyPeeks = 0
    /\ idleCount = 0
    /\ Retrieved = <<>>
    /\ translated = <<>>
    /\ dispatched = <<>>
    /\ defProcCalls = <<>>

\* C8: when RegisterClassEx or CreateWindowEx fails, wWinMain has returned -1
\* and the window was not shown, no message was peeked, retrieved, translated
\* or dispatched and no idle work was done.
C8_StartupFailure ==
    RegistrationFailed \/ CreationFailed => Returned(-1) /\ LoopUntouched

\* Registration failed with a message already waiting in the queue.
C8_Witness ==
    /\ RegistrationFailed
    /\ Returned(-1)
    /\ queue # <<>>

\* ------------------------------------------------------------------- C9
\* C9: RegisterClassEx and CreateWindowEx are each called at most once;
\* CreateWindowEx only after a successful registration; the window is shown
\* and the loop entered only after a successful creation; after a failure no
\* later startup step is made.
C9_NoRetryNoContinue ==
    /\ regAttempts <= 1
    /\ createAttempts <= 1
    /\ createAttempts >= 1 \/ pc = "create" => regAttempts = 1 /\ windowClassHandle # 0
    /\ shown \/ initPeeked \/ pc \in LoopPcs \cup {"show", "init"} =>
          createAttempts = 1 /\ mainWindowHandle # NULL
    /\ initPeeked \/ pc \in LoopPcs \cup {"init"} => shown
    /\ RegistrationFailed => createAttempts = 0 /\ pc = "done"
    /\ CreationFailed => ~shown /\ pc = "done"

\* Creation failed after a successful registration; nothing was retried.
C9_Witness ==
    /\ CreationFailed
    /\ pc = "done"
    /\ regAttempts = 1
    /\ windowClassHandle # 0

\* ------------------------------------------------------------------ C10
\* C10: once the loop has been entered wWinMain can only return 0, whatever
\* the retrieved messages and their parameter words hold; -1 is returned only
\* by the two startup checks.
C10_NoErrorAfterLoopEntry ==
    /\ pc = "done" /\ initPeeked => ret = <<0>>
    /\ pc = "done" /\ ret # <<0>> =>
          /\ ret = <<-1>>
          /\ ~initPeeked
          /\ RegistrationFailed \/ CreationFailed
    /\ pc # "done" => ret = <<>>

\* Returned 0 on a sentinel carrying exit code 1, after dispatching a message
\* with a non-zero parameter word.
C10_Witness ==
    /\ Returned(0)
    /\ IsSentinel(msg)
    /\ msg.wParam = 1
    /\ Len(dispatched) >= 2
    /\ dispatched[1].wParam = 1

\* ------------------------------------------------------------------ C11
\* A step in which WndProc ran: it ends by calling DefWindowProc.
WndProcRan == Len(defProcCalls') > Len(defProcCalls)

\* The sentinel PostQuitMessage(0) places in the queue.
QuitMsg == MakeMsg(NULL, WM_QUIT, 0, 0)

\* C11 as stated: for every message kind WndProc forwards the message to
\* DefWindowProc exactly once and does nothing else: the queue gains no
\* message and msg (the loop's termination condition) is unchanged.
C11_Original ==
    [][WndProcRan =>
          /\ defProcCalls' = Append(defProcCalls, msg)
          /\ queue' = queue
          /\ arrived' = arrived
          /\ msg' = msg]_vars

\* C11 amended: WndProc forwards every message it receives to DefWindowProc
\* exactly once and never changes msg; for every kind other than WM_DESTROY
\* it has no other effect; for WM_DESTROY it first calls PostQuitMessage(0),
\* which adds one sentinel with exit code 0 to the queue.
C11_WndProcEffect ==
    [][WndProcRan =>
          /\ defProcCalls' = Append(defProcCalls, msg)
          /\ msg' = msg
          /\ IF msg.message = WM_DESTROY
                THEN queue' = Append(queue, QuitMsg) /\ arrived' = Append(arrived, QuitMsg)
                ELSE queue' = queue /\ arrived' = arrived]_vars

\* WndProc has received a key message and then WM_DESTROY, whose sentinel is
\* the newest message in the queue.
C11_Witness ==
    /\ Len(defProcCalls) = 2
    /\ defProcCalls[1].message = WM_KEYDOWN
    /\ defProcCalls[2].message = WM_DESTROY
    /\ pc = "test"
    /\ queue # <<>>
    /\ Last(queue) = QuitMsg
    /\ msg.message = WM_DESTROY

\* ------------------------------------------------------------------ C12
DestroyDispatched == \E i \in DOMAIN defProcCalls : defProcCalls[i].message = WM_DESTROY

\* C12: the dispatch of WM_DESTROY to WndProc leaves a sentinel in the queue;
\* from then on, wWinMain taking its steps, the loop eventually retrieves a
\* sentinel and wWinMain returns 0.
C12_DestroyLeadsToReturn ==
    /\ [][WndProcRan /\ msg.message = WM_DESTROY =>
            ~NoSentinel(queue') /\ Len(arrived') = Len(arrived) + 1]_vars
    /\ [](DestroyDispatched => SentinelRetrieved \/ ~NoSentinel(queue))
    /\ (DestroyDispatched ~> (SentinelRetrieved /\ Returned(0)))

\* WM_DESTROY was dispatched with a key message pending behind it; the posted
\* sentinel was retrieved after that message and wWinMain returned 0.
C12_Witness ==
    /\ Returned(0)
    /\ Len(arrived) = 3
    /\ arrived[1].message = WM_DESTROY
    /\ arrived[2].message = WM_KEYDOWN
    /\ arrived[3] = QuitMsg
    /\ Len(dispatched) = 3
    /\ queue = <<>>

\* ------------------------------------------------------------------ C13
\* The loop has been reached and no iteration has yet retrieved a message or
\* found the queue empty: msg is as the peek before the loop left it.
BeforeFirstRetrieval ==
    initPeeked /\ emptyPeeks = 0 /\ translated = <<>> /\ pc # "translate"

\* The peek before the loop found a message that is not the sentinel.
EntrySawMessage ==
    /\ pc = "test"
    /\ BeforeFirstRetrieval
    /\ queue # <<>>
    /\ msg = Head(queue)
    /\ ~IsSentinel(msg)

\* The peek before the loop found the sentinel.
EntrySawSentinel == BeforeFirstRetrieval /\ IsSentinel(msg)

\* C13: the PM_NOREMOVE peek before the loop copies the oldest message into
\* msg and removes nothing.  A first message that is not the sentinel is then
\* retrieved by the loop and dispatched, once and first.  If it is the
\* sentinel the loop body never runs: nothing is retrieved, translated or
\* dispatched, no idle work is done, the sentinel stays at the head of the
\* queue, and wWinMain returns 0.
C13_InitPeekRemovesNothing ==
    /\ [][pc = "init" /\ pc' = "test" =>
            /\ queue' = queue
            /\ arrived' = arrived
            /\ (queue # <<>> => msg' = Head(queue))]_vars
    /\ [](dispatched \o InFlight \o queue = arrived)
    /\ [](EntrySawSentinel =>
            /\ pc \in {"test", "done"}
            /\ itPeek = 0
            /\ dispatched = <<>>
            /\ idleCount = 0
            /\ queue = arrived
            /\ queue # <<>> /\ Head(queue) = msg
            /\ (pc = "done" => ret = <<0>>))
    /\ (EntrySawSentinel ~> (Returned(0) /\ EntrySawSentinel))
    /\ (EntrySawMessage ~> (dispatched # <<>> /\ dispatched[1] = arrived[1]))

\* The sentinel was first in the queue at loop entry, with another message
\* behind it: wWinMain returned 0 without one iteration.
C13_Witness ==
    /\ Returned(0)
    /\ EntrySawSentinel
    /\ Len(queue) = 2
    /\ dispatched = <<>>

\* ------------------------------------------------------------------ C14
\* A step of an idle iteration: the PM_REMOVE peek that finds the queue empty,
\* or the idle branch that follows it.
IdleIterationStep ==
    \/ pc = "peek" /\ pc' = "idle"
    \/ pc = "idle" /\ pc' = "test"

\* C14: the steps of an idle iteration change neither the queue nor msg nor
\* what was translated and dispatched; so at the loop test after an idle
\* iteration msg is still the last message retrieved (or what the peek
\* before the loop left when none was), and the loop test holds after it as
\* it held before it: an idle iteration is never followed by the exit.
C14_IdleFrame ==
    /\ [][IdleIterationStep =>
            /\ queue' = queue
            /\ arrived' = arrived
            /\ msg' = msg
            /\ dispatched' = dispatched
            /\ translated' = translated
            /\ defProcCalls' = defProcCalls]_vars
    /\ [](pc = "test" /\ itIdle = 1 /\ translated # <<>> => msg = Last(translated))
    /\ [](pc = "test" /\ itIdle = 1 => msg.message # WM_QUIT)
    /\ [](pc = "idle" => msg.message # WM_QUIT)

\* An idle iteration has ended after a dispatch; msg still holds the
\* dispatched message, and a new message is already waiting.
C14_Witness ==
    /\ pc = "test"
    /\ itIdle = 1
    /\ Len(dispatched) = 1
    /\ msg = dispatched[1]
    /\ msg.message = WM_KEYDOWN
    /\ queue # <<>>

\* ------------------------------------------------------------------ C15
\* C15: no message behind the first sentinel is ever retrieved, translated or
\* dispatched; once the sentinel has been retrieved (or was seen by the peek
\* before the loop) wWinMain takes nothing more from the queue, whose
\* contents can only grow at the tail by new posts, and at the return the
\* queue still holds every message that arrived behind the sentinel.
C15_NothingBehindSentinel ==
    /\ [](~NoSentinel(arrived) =>
            /\ Len(arrived) - Len(queue) <= SentinelIndex
            /\ Len(translated) <= SentinelIndex
            /\ Len(dispatched) <= SentinelIndex
            /\ IsPrefix(translated, arrived)
            /\ IsPrefix(dispatched, arrived))
    /\ [][SentinelRetrieved \/ EntrySawSentinel => IsPrefix(queue, queue')]_vars
    /\ [](Returned(0) /\ SentinelRetrieved =>
            queue = SubSeq(arrived, SentinelIndex + 1, Len(arrived)))
    /\ [](Returned(0) /\ ~SentinelRetrieved =>
            queue = SubSeq(arrived, SentinelIndex, Len(arrived)))

\* wWinMain returned after retrieving the sentinel; two messages that arrived
\* behind it are still in the queue.
C15_Witness ==
    /\ Returned(0)
    /\ SentinelRetrieved
    /\ SentinelIndex = 1
    /\ Len(queue) = 2
    /\ dispatched = <<arrived[1]>>

====
